---- MODULE Spec2Model ----
(***************************************************************************)
(* Model of marian's embedder task (src/embedder/embedder.h) and of the    *)
(* lazily bound layers of src/layers_new/neuralnet.h.                      *)
(*                                                                         *)
(* Two specifications share the variables:                                 *)
(*   Spec    the Embed constructor and Embed::run with its worker pool;    *)
(*   SpecNN  one layer object and a sequence of apply calls on it.         *)
(***************************************************************************)
EXTENDS Integers, Sequences, FiniteSets, TLC

\* ------------------------------------------------------------------ bounds
NumDevices == 2
MaxBatches == 3
MaxBatchSize == 2
EmbDim == 2
MaxDim == 2
MaxApply == 3
MaxHeads == 2

\* --------------------------------------------------------------- constants
None == 0 - 1
Garbage == 0 - 7

VARIABLES
  \* ---- embedder.h
  isPooler,      \* does dynamic_pointer_cast<EncoderPooler>(model_) succeed
  valueType,     \* embeddings->value_type()
  similarity,    \* options "compute-similarity"
  stream,        \* the batches the generator yields: sequence of batch sizes
  mainpc,        \* position of the thread that constructs and runs Embed
  ctorI,         \* loop index i of the constructor's enqueue loop
  loadTask,      \* state of the j-th load task of the constructor's pool
  models_,       \* the model slots
  graphs_,       \* the graphs: what is built in them, whether forwarded
  batchId,       \* next task index
  tasks,         \* queue of the run pool
  wpc,           \* position of each worker thread inside the task lambda
  wtask,         \* the id argument of the task a worker executes
  tlGraph,       \* thread_local graph/builder of each worker (replica index)
  wi,            \* loop index i of the write loop
  sentVectors,   \* the flattened buffer a worker copied out
  collector,     \* records received by the VectorCollector, per sentence id
  fatal,         \* "none", or why the process was aborted
  \* ---- neuralnet.h
  layer,         \* the layer object: its configuration and parameter slots
  params,        \* the parameters the layer's graph holds
  mode,          \* the graph's mode, train or eval
  lastX,         \* the input of the latest apply call
  lastY,         \* what the latest apply call returned
  nApply,        \* number of apply calls so far
  bindCount,     \* how often each slot of the layer was assigned
  dimsSeen,      \* the last dimensions of the inputs applied so far
  nnFatal,       \* "none", or where an apply call aborted the process
  \* ---- neuralnet.h, transposedLogMask
  mask,          \* the mask argument
  dimHeads,      \* the dimHeads argument
  logMask,       \* what the call returned
  maskCalls      \* number of calls so far

pvars == << isPooler, valueType, similarity, stream, mainpc, ctorI, loadTask, models_,
            graphs_, batchId, tasks, wpc, wtask, tlGraph, wi, sentVectors,
            collector, fatal >>

nvars == << layer, params, mode, lastX, lastY, nApply, bindCount, dimsSeen,
            nnFatal >>

mvars == << mask, dimHeads, logMask, maskCalls >>

vars == << pvars, nvars, mvars >>

\* ------------------------------------------------ neuralnet.h: expressions
\* An Expr: a node with an operator, a shape, an element type, its children,
\* the operator's integer attributes and, for a parameter, its initializer.
Expr(op, shape, type, args, attr, init) ==
  [op |-> op, shape |-> shape, type |-> type, args |-> args, attr |-> attr,
   init |-> init]

NullExpr == Expr("nullptr", << >>, "", << >>, << >>, "")

Last(s) == s[Len(s)]

ReplaceLast(s, k) == [s EXCEPT ![Len(s)] = k]

BoolAttr(b) == IF b THEN 1 ELSE 0

Types == { "float32", "float16" }

Dims == 1 .. MaxDim

InputShapes == { << b, d >> : b \in Dims, d \in Dims }
                 \cup { << 1, b, d >> : b \in Dims, d \in Dims }

Inputs == { Expr("input", s, ty, << >>, << >>, "") : s \in InputShapes, ty \in Types }

\* dropout probabilities, in tenths
Probabilities == { 0, 5 }

\* UPtr<Shape> dropoutMaskShape: the empty sequence is nullptr
NoShape == << >>

MaskShapes == { NoShape, << 1, MaxDim >> }

\* graph->param(name, shape, init): the parameter gets the graph's default
\* element type and the next free slot of the graph
GraphParam(g, shape, init) ==
  Expr("param", shape, "float32", << >>, << Len(g) >>, init)

\* registerParameterLazy(slot, shape, init): binds the slot unless it is bound
registerParameterLazy(slot, g, shape, init) ==
  IF slot = NullExpr
    THEN [slot |-> GraphParam(g, shape, init),
          graph |-> Append(g, GraphParam(g, shape, init)),
          created |-> TRUE]
    ELSE [slot |-> slot, graph |-> g, created |-> FALSE]

\* marian::cast: a node that converts, or the operand itself when it already
\* has the type
cast(a, type) ==
  IF a.type = type THEN a ELSE Expr("cast", a.shape, type, << a >>, << >>, "")

\* do the inner dimensions of x * op(W) agree
InnerDimsMatch(x, W, transB) ==
  Last(x.shape) = IF transB THEN W.shape[Len(W.shape)] ELSE W.shape[Len(W.shape) - 1]

ProductShape(x, W, transB) ==
  ReplaceLast(x.shape, IF transB THEN W.shape[Len(W.shape) - 1] ELSE Last(W.shape))

\* marian::affine(x, W, b, transA, transB)
affine(x, W, b, transA, transB) ==
  Expr("affine", ProductShape(x, W, transB), x.type, << x, W, b >>,
       << BoolAttr(transA), BoolAttr(transB) >>, "")

\* marian::dot(x, W, transA, transB)
dot(x, W, transA, transB) ==
  Expr("dot", ProductShape(x, W, transB), x.type, << x, W >>,
       << BoolAttr(transA), BoolAttr(transB) >>, "")

relu(a) == Expr("relu", a.shape, a.type, << a >>, << >>, "")

dropout(a, p, maskShape) ==
  Expr("dropout", a.shape, a.type, << a >>, << p >> \o maskShape, "")

dropoutReluInplace(a, p, maskShape) ==
  Expr("dropoutReluInplace", a.shape, a.type, << a >>, << p >> \o maskShape, "")

layerNorm(x, gamma, beta, eps) ==
  Expr("layerNorm", x.shape, x.type, << x, gamma, beta >>, << eps >>, "")

rmsNorm(x, gamma, beta, eps) ==
  Expr("rmsNorm", x.shape, x.type, << x, gamma, beta >>, << eps >>, "")

\* --------------------------------------------- neuralnet.h: constructors
\* eps{1e-5f}, in units of 1e-5
DefaultEps == 1

\* every layer is one record; a kind leaves the fields it lacks at defaults.
\* argTransposed and tied remember the constructor's arguments.
LayerRecord(kind, w, dimOut, useBias, transposed, init, p, ms, af, argTransposed, tied) ==
  [kind |-> kind, weight |-> w, bias |-> NullExpr, dimOut |-> dimOut,
   useBias |-> useBias, transposed |-> transposed, init |-> init,
   dropoutProbabilty |-> p, dropoutMaskShape |-> ms,
   eps |-> DefaultEps, elementwiseAffine |-> af,
   argTransposed |-> argTransposed, tied |-> tied]

\* Linear(graph, dimOut, useBias, transposed, init): the initializer list
\* sets dimOut, useBias and init; member transposed keeps its default false
Linear(dimOut, useBias, transposedArg, init) ==
  LayerRecord("Linear", NullExpr, dimOut, useBias, FALSE, init, 0, NoShape,
              FALSE, transposedArg, FALSE)

\* leaves the weight slot empty
TiedLinear_Unbound(tiedWeight, useBias, transposedArg) ==
  LayerRecord("Linear", NullExpr, Last(tiedWeight.shape), useBias, FALSE,
              "nullptr", 0, NoShape, FALSE, transposedArg, TRUE)

\* takes the output dimension from the weight's first axis
TiedLinear_FirstAxis(tiedWeight, useBias, transposedArg) ==
  LayerRecord("Linear", tiedWeight, tiedWeight.shape[Len(tiedWeight.shape) - 1],
              useBias, FALSE, "nullptr", 0, NoShape, FALSE, transposedArg, TRUE)

\* Linear(graph, tiedWeight, useBias, transposed)
TiedLinear(tiedWeight, useBias, transposedArg) ==
  LayerRecord("Linear", tiedWeight, Last(tiedWeight.shape), useBias, FALSE,
              "nullptr", 0, NoShape, FALSE, transposedArg, TRUE)

\* LinearReluDropout(graph, dimOut, dropoutProbabilty[, dropoutMaskShape], ...)
LinearReluDropout(dimOut, p, maskShape, useBias, transposedArg, init) ==
  [Linear(dimOut, useBias, transposedArg, init) EXCEPT
     !.kind = "LinearReluDropout",
     !.dropoutProbabilty = p,
     !.dropoutMaskShape = maskShape]

\* Dropout(graph, dropoutProbabilty[, dropoutMaskShape])
Dropout(p, maskShape) ==
  LayerRecord("Dropout", NullExpr, 0, FALSE, FALSE, "", p, maskShape, FALSE,
              FALSE, FALSE)

\* LayerNorm(graph, eps, elementwiseAffine)
LayerNorm(affineFlag) ==
  LayerRecord("LayerNorm", NullExpr, 0, FALSE, FALSE, "", 0, NoShape,
              affineFlag, FALSE, FALSE)

\* RMSNorm(graph, eps, elementwiseAffine)
RMSNorm(affineFlag) ==
  LayerRecord("RMSNorm", NullExpr, 0, FALSE, FALSE, "", 0, NoShape,
              affineFlag, FALSE, FALSE)

\* a weight another layer registered before, for the tied construction
TiedWeights ==
  { Expr("param", << a, b >>, "float32", << >>, << 0 >>, "glorotUniform") :
      a \in Dims, b \in Dims }

UntiedLayers ==
  { Linear(k, ub, tr, "glorotUniform") :
      k \in Dims, ub \in BOOLEAN, tr \in BOOLEAN }
  \cup { LinearReluDropout(k, p, ms, ub, tr, "glorotUniform") :
      k \in Dims, p \in Probabilities, ms \in MaskShapes, ub \in BOOLEAN,
      tr \in BOOLEAN }
  \cup { Dropout(p, ms) : p \in Probabilities, ms \in MaskShapes }
  \cup { LayerNorm(af) : af \in BOOLEAN }
  \cup { RMSNorm(af) : af \in BOOLEAN }

TiedLayers ==
  { TiedLinear(w, ub, tr) : w \in TiedWeights, ub \in BOOLEAN, tr \in BOOLEAN }

\* ------------------------------------------------- neuralnet.h: apply
\* the result of an apply call: the layer and the graph's parameters after
\* it, what it returned, which slots it assigned, and where it aborted
ApplyResult(l, g, y, boundW, boundB, abortedIn) ==
  [layer |-> l, graph |-> g, y |-> y, boundWeight |-> boundW,
   boundBias |-> boundB, fatal |-> abortedIn]

\* registers the weight anew whenever the input implies another shape
RegisterLinear_Reshape(l, g, x) ==
  LET dimIn == Last(x.shape)
      shape == IF l.transposed THEN << l.dimOut, dimIn >> ELSE << dimIn, l.dimOut >>
      w == IF l.weight # NullExpr /\ l.weight.shape = shape
             THEN [slot |-> l.weight, graph |-> g, created |-> FALSE]
             ELSE registerParameterLazy(NullExpr, g, shape, l.init)
      b == IF l.useBias
             THEN registerParameterLazy(l.bias, w.graph, << l.dimOut >>, "zeros")
             ELSE [slot |-> l.bias, graph |-> w.graph, created |-> FALSE]
  IN [layer |-> [l EXCEPT !.weight = w.slot, !.bias = b.slot],
      graph |-> b.graph, boundWeight |-> w.created, boundBias |-> b.created]

\* lines 120-131 and 214-225: the lazy registration both linear layers share
RegisterLinear(l, g, x) ==
  LET dimIn == Last(x.shape)
      w == IF l.transposed
             THEN registerParameterLazy(l.weight, g, << l.dimOut, dimIn >>, l.init)
             ELSE registerParameterLazy(l.weight, g, << dimIn, l.dimOut >>, l.init)
      b == IF l.useBias
             THEN registerParameterLazy(l.bias, w.graph, << l.dimOut >>, "zeros")
             ELSE [slot |-> l.bias, graph |-> w.graph, created |-> FALSE]
  IN [layer |-> [l EXCEPT !.weight = w.slot, !.bias = b.slot],
      graph |-> b.graph, boundWeight |-> w.created, boundBias |-> b.created]

\* Linear::apply
Linear_apply(l, g, x) ==
  LET r == RegisterLinear(l, g, x)
      outputType == x.type
      W == cast(r.layer.weight, outputType)
  IN IF ~InnerDimsMatch(x, W, r.layer.transposed)
       THEN ApplyResult(r.layer, r.graph, NullExpr, r.boundWeight, r.boundBias,
                        "product")
       ELSE ApplyResult(r.layer, r.graph,
              IF r.layer.useBias
                THEN affine(x, W, cast(r.layer.bias, outputType), FALSE,
                            r.layer.transposed)
                ELSE dot(x, W, FALSE, r.layer.transposed),
              r.boundWeight, r.boundBias, "none")

\* lines 229-232 of LinearReluDropout::apply: no cast
LinearReluDropout_output(l, x) ==
  IF l.useBias
    THEN affine(x, l.weight, l.bias, FALSE, l.transposed)
    ELSE dot(x, l.weight, FALSE, l.transposed)

\* lines 234-243
LinearReluDropout_activation(l, m, output) ==
  IF m = "eval"
    THEN relu(output)
    ELSE IF l.dropoutMaskShape # NoShape /\ l.dropoutProbabilty > 0
      THEN dropoutReluInplace(output, l.dropoutProbabilty, l.dropoutMaskShape)
      ELSE IF l.dropoutProbabilty > 0
        THEN dropoutReluInplace(output, l.dropoutProbabilty,
               << output.shape[Len(output.shape) - 1], Last(output.shape) >>)
        ELSE relu(output)

\* LinearReluDropout::apply
LinearReluDropout_apply(l, g, m, x) ==
  LET r == RegisterLinear(l, g, x)
  IN IF ~InnerDimsMatch(x, r.layer.weight, r.layer.transposed)
       THEN ApplyResult(r.layer, r.graph, NullExpr, r.boundWeight, r.boundBias,
                        "product")
       ELSE ApplyResult(r.layer, r.graph,
              LinearReluDropout_activation(r.layer, m,
                                           LinearReluDropout_output(r.layer, x)),
              r.boundWeight, r.boundBias, "none")

\* the fixed-mask branch without its probability test
Dropout_apply_MaskOnly(l, m, input) ==
  IF m = "eval"
    THEN input
    ELSE IF l.dropoutMaskShape # NoShape
      THEN dropout(input, l.dropoutProbabilty, l.dropoutMaskShape)
      ELSE IF l.dropoutProbabilty > 0
        THEN dropout(input, l.dropoutProbabilty,
               << input.shape[Len(input.shape) - 1], Last(input.shape) >>)
        ELSE input

\* Dropout::apply
Dropout_apply(l, m, input) ==
  IF m = "eval"
    THEN input
    ELSE IF l.dropoutMaskShape # NoShape /\ l.dropoutProbabilty > 0
      THEN dropout(input, l.dropoutProbabilty, l.dropoutMaskShape)
      ELSE IF l.dropoutProbabilty > 0
        THEN dropout(input, l.dropoutProbabilty,
               << input.shape[Len(input.shape) - 1], Last(input.shape) >>)
        ELSE input

\* registers weight and bias on every call
LayerNorm_apply_Eager(l, g, x) ==
  LET dimModel == Last(x.shape)
  IN IF l.elementwiseAffine
       THEN LET w == registerParameterLazy(NullExpr, g, << dimModel >>, "ones")
                b == registerParameterLazy(NullExpr, w.graph, << dimModel >>, "zeros")
            IN ApplyResult([l EXCEPT !.weight = w.slot, !.bias = b.slot], b.graph,
                           layerNorm(x, w.slot, b.slot, l.eps),
                           w.created, b.created, "none")
       ELSE ApplyResult(l, g, layerNorm(x, NullExpr, NullExpr, l.eps),
                        FALSE, FALSE, "none")

\* LayerNorm::apply
LayerNorm_apply(l, g, x) ==
  LET dimModel == Last(x.shape)
  IN IF l.elementwiseAffine
       THEN LET w == registerParameterLazy(l.weight, g, << dimModel >>, "ones")
                b == registerParameterLazy(l.bias, w.graph, << dimModel >>, "zeros")
            IN ApplyResult([l EXCEPT !.weight = w.slot, !.bias = b.slot], b.graph,
                           layerNorm(x, w.slot, b.slot, l.eps),
                           w.created, b.created, "none")
       ELSE ApplyResult(l, g, layerNorm(x, NullExpr, NullExpr, l.eps),
                        FALSE, FALSE, "none")

\* registers the weight whatever elementwiseAffine says
RMSNorm_apply_Always(l, g, x) ==
  LET dimModel == Last(x.shape)
      w == registerParameterLazy(l.weight, g, << dimModel >>, "ones")
  IN ApplyResult([l EXCEPT !.weight = w.slot], w.graph,
                 rmsNorm(x, w.slot, NullExpr, l.eps), w.created, FALSE, "none")

\* RMSNorm::apply
RMSNorm_apply(l, g, x) ==
  LET dimModel == Last(x.shape)
  IN IF l.elementwiseAffine
       THEN LET w == registerParameterLazy(l.weight, g, << dimModel >>, "ones")
            IN ApplyResult([l EXCEPT !.weight = w.slot], w.graph,
                           rmsNorm(x, w.slot, NullExpr, l.eps),
                           w.created, FALSE, "none")
       ELSE ApplyResult(l, g, rmsNorm(x, NullExpr, NullExpr, l.eps),
                        FALSE, FALSE, "none")

\* ---------------------------------------- neuralnet.h: transposedLogMask
\* a realized tensor: shape, element type and the elements in row-major order
Tensor(shape, type, data) == [shape |-> shape, type |-> type, data |-> data]

NullTensor == Tensor(<< >>, "nullptr", << >>)

RECURSIVE Elements(_)
Elements(shape) == IF shape = << >> THEN 1 ELSE Head(shape) * Elements(Tail(shape))

\* what an overflow in the element type yields
NegInfinity == 0 - 2147483647

PosInfinity == 2147483647

\* the largest finite float16
Float16Max == 65504

\* NumericLimits<float>(type).lowest; float32's -3.4e38 does not fit the
\* integers of the checker and is stood for by a number far below the
\* literal of line 22
Lowest(type) == IF type = "float16" THEN 0 - Float16Max ELSE 0 - 2000000000

\* -99999999.f: the nearest float32 is -1e8
MaskFloor == 0 - 100000000

Max(a, b) == IF a >= b THEN a ELSE b

\* takes the literal for every element type
maskFactor_LiteralOnly(type) == MaskFloor

\* line 22
maskFactor(type) == Max(Lowest(type) \div 2, MaskFloor)

\* the result of an arithmetic operation as the element type holds it
InType(type, v) ==
  IF type = "float16" /\ v > Float16Max
    THEN PosInfinity
    ELSE IF type = "float16" /\ v < 0 - Float16Max THEN NegInfinity ELSE v

\* reshape(a, shape): the same elements under another shape
reshape(a, shape) == Tensor(shape, a.type, a.data)

\* 1 - a
OneMinus(a) ==
  Tensor(a.shape, a.type, [n \in 1 .. Len(a.data) |-> InType(a.type, 1 - a.data[n])])

\* a * f for a scalar f
TimesScalar(a, f) ==
  Tensor(a.shape, a.type, [n \in 1 .. Len(a.data) |-> InType(a.type, a.data[n] * f)])

\* repeat(a, repeats, -3) of a four-dimensional a: repeats copies of a
\* concatenated along the second axis
repeat(a, repeats) ==
  LET d0 == a.shape[1]
      d1 == a.shape[2]
      inner == a.shape[3] * a.shape[4]
      shape == << d0, repeats * d1, a.shape[3], a.shape[4] >>
  IN Tensor(shape, a.type,
       [n \in 1 .. Elements(shape) |->
          LET i0 == (n - 1) \div (repeats * d1 * inner)
              i1 == ((n - 1) \div inner) % (repeats * d1)
              rest == (n - 1) % inner
          IN a.data[i0 * d1 * inner + (i1 % d1) * inner + rest + 1]])

\* repeats the whole mask instead of each batch entry
transposedLogMask_RepeatBatch(m, heads) ==
  IF m = NullTensor
    THEN NullTensor
    ELSE LET dimBatch == m.shape[Len(m.shape) - 2]
             dimSrcWords == m.shape[Len(m.shape) - 1]
             m4 == reshape(m, << 1, 1, dimBatch, dimSrcWords >>)
             lm == TimesScalar(OneMinus(m4), maskFactor(m4.type))
         IN reshape(repeat(lm, heads), << 1, dimBatch * heads, 1, dimSrcWords >>)

\* transposedLogMask(mask, dimHeads)
transposedLogMask(m, heads) ==
  IF m = NullTensor
    THEN NullTensor
    ELSE LET dimBatch == m.shape[Len(m.shape) - 2]
             dimSrcWords == m.shape[Len(m.shape) - 1]
             m4 == reshape(m, << dimBatch, 1, 1, dimSrcWords >>)
             lm == TimesScalar(OneMinus(m4), maskFactor(m4.type))
         IN reshape(repeat(lm, heads), << 1, dimBatch * heads, 1, dimSrcWords >>)

\* the masks of shape (batch, source length, 1) with entries 0 and 1
Masks ==
  UNION { { Tensor(<< b, w, 1 >>, ty, d) : d \in [1 .. (b * w) -> { 0, 1 }] } :
            b \in Dims, w \in Dims, ty \in Types }

\* ------------------------------------------------------- embedder.h: data
Devices == 0 .. (NumDevices - 1)
Workers == 1 .. NumDevices
QueueBound == NumDevices

\* the streams of 0 .. MaxBatches batches whose sizes cycle through
\* MaxBatchSize, ..., 1
Streams ==
  { [b \in 1 .. n |-> MaxBatchSize - ((b - 1) % MaxBatchSize)] : n \in 0 .. MaxBatches }

\* batch->size() of the batch carried by task id
BatchSize(id) == stream[id + 1]

RECURSIVE Offset(_)
Offset(id) == IF id = 0 THEN 0 ELSE Offset(id - 1) + BatchSize(id - 1)

NumSentences == Offset(Len(stream))

\* batch->getSentenceIds()[i]; the generator does not keep corpus order
\* inside a batch
getSentenceIds(id, i) == Offset(id) + (BatchSize(id) - 1 - i)

SentenceIdSet == 0 .. (NumSentences - 1)

\* embeddings->shape()[-1]: one score per pair when similarities are computed
embSize == IF similarity THEN 1 ELSE EmbDim

\* element k of the embedding of the sentence (pair) sid
EmbeddingValue(sid, k) == 10 * (sid + 1) + k

\* embeddings->val()->get(sentVectors) after a forward pass of the batch
ForwardedBuffer(id) ==
  [n \in 1 .. (BatchSize(id) * embSize) |->
     EmbeddingValue(getSentenceIds(id, (n - 1) \div embSize), (n - 1) % embSize)]

\* the element types a graph can compute the embeddings in
ValueTypes == { "float32", "float16", "int8" }

\* a float16 is kept as its code; the code of the value v
ToFloat16(v) == v + 1000

\* the implicit conversion of sentVectors.push_back(v) for a float16 v
ToFloat32(h) == h - 1000

\* the elements of embeddings->val() as the tensor stores them
TensorValues(id) ==
  IF valueType = "float16"
    THEN [n \in 1 .. (BatchSize(id) * embSize) |-> ToFloat16(ForwardedBuffer(id)[n])]
    ELSE ForwardedBuffer(id)

\* copies every element type like float32
CopyOut_AnyType(type, tensor) ==
  IF type = "float16"
    THEN [fatal |-> "none", sentVectors |-> [n \in 1 .. Len(tensor) |-> ToFloat32(tensor[n])]]
    ELSE [fatal |-> "none", sentVectors |-> tensor]

\* lines 133-144: the copy into std::vector<float> sentVectors
CopyOut(type, tensor) ==
  IF type = "float32"
    THEN [fatal |-> "none", sentVectors |-> tensor]
    ELSE IF type = "float16"
      THEN [fatal |-> "none", sentVectors |-> [n \in 1 .. Len(tensor) |-> ToFloat32(tensor[n])]]
      ELSE [fatal |-> "Unknown embedding type", sentVectors |-> << >>]

\* what the copy yields when the graph was cleared or rebuilt meanwhile
GarbageBuffer(id) == [n \in 1 .. (BatchSize(id) * embSize) |-> Garbage]

\* beg = i, end = i + embSize
SentVector_Stride1(buf, i) == SubSeq(buf, i + 1, i + embSize)

\* std::vector<float> sentVector(begin + beg, begin + end)
SentVector(buf, i) == SubSeq(buf, i * embSize + 1, (i + 1) * embSize)

\* VectorCollector::Write
CollectorWrite(c, sid, vec) == [c EXCEPT ![sid] = Append(@, vec)]

\* models_.resize(graphs_.size()): an empty slot
NullModel == [state |-> "null", graph |-> None, weights |-> "", by |-> None]

\* the mask variables while nothing calls transposedLogMask
MaskIdle ==
  /\ mask = NullTensor
  /\ dimHeads = 1
  /\ logMask = NullTensor
  /\ maskCalls = 0

\* the layer variables while the embedder runs
NNIdle ==
  /\ layer = Dropout(0, NoShape)
  /\ params = << >>
  /\ mode = "eval"
  /\ lastX = NullExpr
  /\ lastY = NullExpr
  /\ nApply = 0
  /\ bindCount = [weight |-> 0, bias |-> 0]
  /\ dimsSeen = { }
  /\ nnFatal = "none"

\* ------------------------------------------------------- embedder.h: Init
Init ==
  /\ isPooler \in BOOLEAN
  /\ valueType \in ValueTypes
  /\ similarity \in BOOLEAN
  /\ stream \in Streams
  /\ mainpc = "ctor_loop"
  /\ ctorI = 0
  /\ loadTask = [j \in Devices |-> "none"]
  /\ models_ = [j \in Devices |-> NullModel]
  /\ graphs_ = [j \in Devices |-> [built |-> None, forwarded |-> FALSE]]
  /\ batchId = 0
  /\ tasks = << >>
  /\ wpc = [t \in Workers |-> "idle"]
  /\ wtask = [t \in Workers |-> None]
  /\ tlGraph = [t \in Workers |-> None]
  /\ wi = [t \in Workers |-> 0]
  /\ sentVectors = [t \in Workers |-> << >>]
  /\ collector = [sid \in 0 .. (MaxBatches * MaxBatchSize - 1) |-> << >>]
  /\ fatal = "none"
  /\ NNIdle
  /\ MaskIdle

Alive == fatal = "none"

\* ------------------------------------------------ Embed::Embed, lines 94-104
CtorEnqueue ==
  /\ Alive
  /\ mainpc = "ctor_loop"
  /\ ctorI < NumDevices
  /\ loadTask' = [loadTask EXCEPT ![ctorI] = "queued"]
  /\ ctorI' = ctorI + 1
  /\ UNCHANGED << isPooler, valueType, similarity, stream, mainpc, models_, graphs_,
                  batchId, tasks, wpc, wtask, tlGraph, wi, sentVectors,
                  collector, fatal, nvars, mvars >>

CtorLoopEnd ==
  /\ Alive
  /\ mainpc = "ctor_loop"
  /\ ctorI = NumDevices
  /\ mainpc' = "ctor_join"
  /\ UNCHANGED << isPooler, valueType, similarity, stream, ctorI, loadTask, models_,
                  graphs_, batchId, tasks, wpc, wtask, tlGraph, wi,
                  sentVectors, collector, fatal, nvars, mvars >>

\* a slot of models_: whether a model was created and loaded, the graph it
\* was loaded into, the weights it was loaded from and the load task that
\* assigned the slot
ModelSlot(state, graph, weights, by) ==
  [state |-> state, graph |-> graph, weights |-> weights, by |-> by]

\* every task gets the first slot
LoadTaskArg_Zero(i) == 0

\* pool.enqueue(lambda, i): the task's argument j
LoadTaskArg(i) == i

\* models_[j] = New<Model>(options_): the Embedder constructor checks nothing
LoadCreate(j) ==
  /\ Alive
  /\ loadTask[j] = "queued"
  /\ loadTask' = [loadTask EXCEPT ![j] = "running"]
  /\ models_' = [models_ EXCEPT ![LoadTaskArg(j)] =
                   ModelSlot("created", None, "", j)]
  /\ UNCHANGED << isPooler, valueType, similarity, stream, mainpc, ctorI, graphs_,
                  batchId, tasks, wpc, wtask, tlGraph, wi, sentVectors,
                  collector, fatal, nvars, mvars >>

\* models_[j]->load(graphs_[j], modelFile_)
LoadLoad(j) ==
  /\ Alive
  /\ loadTask[j] = "running"
  /\ loadTask' = [loadTask EXCEPT ![j] = "done"]
  /\ models_' = [models_ EXCEPT ![LoadTaskArg(j)] =
                   ModelSlot("loaded", LoadTaskArg(j), "modelFile_", j)]
  /\ UNCHANGED << isPooler, valueType, similarity, stream, mainpc, ctorI, graphs_,
                  batchId, tasks, wpc, wtask, tlGraph, wi, sentVectors,
                  collector, fatal, nvars, mvars >>

\* the pool's destructor at the end of the constructor
CtorJoin ==
  /\ Alive
  /\ mainpc = "ctor_join"
  /\ \A j \in Devices : loadTask[j] = "done"
  /\ mainpc' = "constructed"
  /\ UNCHANGED << isPooler, valueType, similarity, stream, ctorI, loadTask, models_,
                  graphs_, batchId, tasks, wpc, wtask, tlGraph, wi,
                  sentVectors, collector, fatal, nvars, mvars >>

\* ---------------------------------------------------- Embed::run, main thread
RunStart ==
  /\ Alive
  /\ mainpc = "constructed"
  /\ mainpc' = "run_loop"
  /\ UNCHANGED << isPooler, valueType, similarity, stream, ctorI, loadTask, models_,
                  graphs_, batchId, tasks, wpc, wtask, tlGraph, wi,
                  sentVectors, collector, fatal, nvars, mvars >>

\* pool.enqueue(task, batchId++); enqueue waits while the queue is full
RunEnqueue ==
  /\ Alive
  /\ mainpc = "run_loop"
  /\ batchId < Len(stream)
  /\ Len(tasks) < QueueBound
  /\ tasks' = Append(tasks, batchId)
  /\ batchId' = batchId + 1
  /\ UNCHANGED << isPooler, valueType, similarity, stream, mainpc, ctorI, loadTask,
                  models_, graphs_, wpc, wtask, tlGraph, wi, sentVectors,
                  collector, fatal, nvars, mvars >>

RunLoopEnd ==
  /\ Alive
  /\ mainpc = "run_loop"
  /\ batchId = Len(stream)
  /\ mainpc' = "run_join"
  /\ UNCHANGED << isPooler, valueType, similarity, stream, ctorI, loadTask, models_,
                  graphs_, batchId, tasks, wpc, wtask, tlGraph, wi,
                  sentVectors, collector, fatal, nvars, mvars >>

\* the pool's destructor, then LOG "Total time"
RunReturn ==
  /\ Alive
  /\ mainpc = "run_join"
  /\ tasks = << >>
  /\ \A t \in Workers : wpc[t] = "idle"
  /\ mainpc' = "returned"
  /\ UNCHANGED << isPooler, valueType, similarity, stream, ctorI, loadTask, models_,
                  graphs_, batchId, tasks, wpc, wtask, tlGraph, wi,
                  sentVectors, collector, fatal, nvars, mvars >>

\* ------------------------------------------------- Embed::run, task lambda
\* looks the replica up for every task
ThreadLocalReplica_PerTask(cached, id) == id % NumDevices

\* a worker takes the oldest task; lines 121-127
ThreadLocalReplica(cached, id) ==
  IF cached = None THEN id % NumDevices ELSE cached

TaskStart(t) ==
  /\ Alive
  /\ wpc[t] = "idle"
  /\ tasks # << >>
  /\ tasks' = Tail(tasks)
  /\ wtask' = [wtask EXCEPT ![t] = Head(tasks)]
  /\ tlGraph' = [tlGraph EXCEPT ![t] = ThreadLocalReplica(tlGraph[t], Head(tasks))]
  /\ wpc' = [wpc EXCEPT ![t] = "build"]
  /\ UNCHANGED << isPooler, valueType, similarity, stream, mainpc, ctorI, loadTask,
                  models_, graphs_, batchId, wi, sentVectors, collector,
                  fatal, nvars, mvars >>

Embedder_build_Unchecked(g, id) ==
  [fatal |-> "none", graph |-> [built |-> id, forwarded |-> FALSE]]

\* Embedder::build: ABORT_IF(!embedder, ...), else apply with clearGraph=true
Embedder_build(g, id) ==
  IF ~isPooler
    THEN [fatal |-> "Could not cast to EncoderPooler", graph |-> g]
    ELSE [fatal |-> "none", graph |-> [built |-> id, forwarded |-> FALSE]]

TaskBuild(t) ==
  /\ Alive
  /\ wpc[t] = "build"
  /\ LET r == tlGraph[t]
         b == Embedder_build(graphs_[r], wtask[t])
     IN /\ fatal' = b.fatal
        /\ graphs_' = [graphs_ EXCEPT ![r] = b.graph]
        /\ wpc' = IF b.fatal = "none" THEN [wpc EXCEPT ![t] = "forward"] ELSE wpc
  /\ UNCHANGED << isPooler, valueType, similarity, stream, mainpc, ctorI, loadTask,
                  models_, batchId, tasks, wtask, tlGraph, wi, sentVectors,
                  collector, nvars, mvars >>

\* graph->forward(). When another thread rebuilt this graph in between, the
\* call runs on nodes this task did not build: it may crash or go on.
TaskForward(t) ==
  /\ Alive
  /\ wpc[t] = "forward"
  /\ LET r == tlGraph[t]
     IN \/ /\ graphs_' = [graphs_ EXCEPT ![r].forwarded = TRUE]
           /\ wpc' = [wpc EXCEPT ![t] = "extract"]
           /\ fatal' = fatal
        \/ /\ graphs_[r].built # wtask[t]
           /\ fatal' = "crash"
           /\ UNCHANGED << graphs_, wpc >>
  /\ UNCHANGED << isPooler, valueType, similarity, stream, mainpc, ctorI, loadTask,
                  models_, batchId, tasks, wtask, tlGraph, wi, sentVectors,
                  collector, nvars, mvars >>

\* lines 132-144: copy the values out
Intact(t) ==
  /\ graphs_[tlGraph[t]].built = wtask[t]
  /\ graphs_[tlGraph[t]].forwarded

TaskExtract(t) ==
  /\ Alive
  /\ wpc[t] = "extract"
  /\ LET c == CopyOut(valueType, TensorValues(wtask[t]))
     IN IF c.fatal # "none"
          THEN /\ fatal' = c.fatal
               /\ UNCHANGED << sentVectors, wi, wpc >>
          ELSE /\ \E buf \in IF Intact(t)
                               THEN { c.sentVectors }
                               ELSE { c.sentVectors, GarbageBuffer(wtask[t]) } :
                     sentVectors' = [sentVectors EXCEPT ![t] = buf]
               /\ wi' = [wi EXCEPT ![t] = 0]
               /\ wpc' = [wpc EXCEPT ![t] = "write"]
               /\ fatal' = fatal
  /\ UNCHANGED << isPooler, valueType, similarity, stream, mainpc, ctorI, loadTask,
                  models_, graphs_, batchId, tasks, wtask, tlGraph,
                  collector, nvars, mvars >>

\* line 148: i < batch->size()
WriteLoopContinues_OffByOne(i, id) == i + 1 < BatchSize(id)

WriteLoopContinues(i, id) == i < BatchSize(id)

\* lines 148-155: one iteration of the write loop
TaskWrite(t) ==
  /\ Alive
  /\ wpc[t] = "write"
  /\ WriteLoopContinues(wi[t], wtask[t])
  /\ collector' = CollectorWrite(collector, getSentenceIds(wtask[t], wi[t]),
                                 SentVector(sentVectors[t], wi[t]))
  /\ wi' = [wi EXCEPT ![t] = wi[t] + 1]
  /\ UNCHANGED << isPooler, valueType, similarity, stream, mainpc, ctorI, loadTask,
                  models_, graphs_, batchId, tasks, wpc, wtask, tlGraph,
                  sentVectors, fatal, nvars, mvars >>

TaskEnd(t) ==
  /\ Alive
  /\ wpc[t] = "write"
  /\ ~WriteLoopContinues(wi[t], wtask[t])
  /\ wpc' = [wpc EXCEPT ![t] = "idle"]
  /\ wtask' = [wtask EXCEPT ![t] = None]
  /\ wi' = [wi EXCEPT ![t] = 0]
  /\ sentVectors' = [sentVectors EXCEPT ![t] = << >>]
  /\ UNCHANGED << isPooler, valueType, similarity, stream, mainpc, ctorI, loadTask,
                  models_, graphs_, batchId, tasks, tlGraph, collector,
                  fatal, nvars, mvars >>

MainStep ==
  \/ CtorEnqueue
  \/ CtorLoopEnd
  \/ CtorJoin
  \/ RunStart
  \/ RunEnqueue
  \/ RunLoopEnd
  \/ RunReturn

LoadStep(j) ==
  \/ LoadCreate(j)
  \/ LoadLoad(j)

WorkerStep(t) ==
  \/ TaskStart(t)
  \/ TaskBuild(t)
  \/ TaskForward(t)
  \/ TaskExtract(t)
  \/ TaskWrite(t)
  \/ TaskEnd(t)

Next ==
  \/ MainStep
  \/ \E j \in Devices : LoadStep(j)
  \/ \E t \in Workers : WorkerStep(t)

Spec == Init /\ [][Next]_vars

\* every thread that can take a step eventually takes one
FairSpec ==
  /\ Spec
  /\ WF_vars(MainStep)
  /\ \A j \in Devices : WF_vars(LoadStep(j))
  /\ \A t \in Workers : WF_vars(WorkerStep(t))

\* ========================================================= embedder claims
\* a worker has built on its replica and not yet copied the values out
UsesReplica(t) == wpc[t] \in { "forward", "extract" }

\* C1: no two worker threads are inside build/forward/extraction on the same
\* replica at the same time.
C1_ExclusiveReplica ==
  \A t1 \in Workers : \A t2 \in Workers :
    (t1 # t2 /\ UsesReplica(t1) /\ UsesReplica(t2)) => tlGraph[t1] # tlGraph[t2]

\* the run of one worker that takes the tasks in order
RECURSIVE ReferenceTask(_, _, _)
ReferenceTask(c, id, i) ==
  IF i = BatchSize(id)
    THEN c
    ELSE ReferenceTask(CollectorWrite(c, getSentenceIds(id, i),
                                      SentVector(ForwardedBuffer(id), i)),
                       id, i + 1)

RECURSIVE ReferenceRun(_, _)
ReferenceRun(c, id) ==
  IF id = Len(stream) THEN c ELSE ReferenceRun(ReferenceTask(c, id, 0), id + 1)

FinalMapping(c) ==
  [sid \in DOMAIN c |-> IF c[sid] = << >> THEN << >> ELSE c[sid][Len(c[sid])]]

\* C2: when run has returned, the collector's mapping from id to vector is
\* the one a single worker produces, whatever the interleaving was.
C2_FinalMappingIsReference ==
  mainpc = "returned" =>
    FinalMapping(collector)
      = FinalMapping(ReferenceRun([sid \in DOMAIN collector |-> << >>], 0))

\* the task with this index was taken from the queue and ran to its end
TaskDone(id) ==
  /\ id < batchId
  /\ \A n \in 1 .. Len(tasks) : tasks[n] # id
  /\ \A t \in Workers : wtask[t] # id

\* how many records the collector must hold for position i of task id
ExpectedRecords(id, i) ==
  IF TaskDone(id)
    THEN 1
    ELSE IF \E t \in Workers : wtask[t] = id /\ wpc[t] = "write" /\ i < wi[t]
      THEN 1
      ELSE 0

\* C3: a task writes once per sentence position, under that position's
\* sentence id: a finished task has written batch->size() records, a running
\* one the positions below its loop index, and after run has returned the
\* collector holds exactly one record for every input sentence (one per pair
\* in similarity mode) and none under any other key.
C3_OneWritePerSentence ==
  /\ \A id \in 0 .. (Len(stream) - 1) : \A i \in 0 .. (BatchSize(id) - 1) :
       Len(collector[getSentenceIds(id, i)]) = ExpectedRecords(id, i)
  /\ \A sid \in DOMAIN collector :
       sid \notin SentenceIdSet => collector[sid] = << >>
  /\ mainpc = "returned" =>
       \A sid \in SentenceIdSet : Len(collector[sid]) = 1

C3_Witness ==
  /\ mainpc = "returned"
  /\ similarity
  /\ NumSentences >= 3
  /\ \A sid \in SentenceIdSet : Len(collector[sid]) = 1 /\ Len(collector[sid][1]) = 1

TaskWritten(id) ==
  \A i \in 0 .. (BatchSize(id) - 1) : collector[getSentenceIds(id, i)] # << >>

\* C4: with a model that can embed and a supported element type, every batch
\* handed to the pool is eventually written when the threads are scheduled
\* fairly.
C4_SubmittedEventuallyWritten ==
  \A id \in 0 .. (MaxBatches - 1) :
    (isPooler /\ valueType \in Types /\ id < batchId)
      ~> (id < batchId /\ TaskWritten(id))

\* C10 as stated: a model that is no EncoderPooler is rejected before any
\* replica is loaded and before any batch is dispatched.
C10_RejectedAtConstruction ==
  ~isPooler => /\ \A j \in Devices : models_[j].state # "loaded"
               /\ batchId = 0

\* C10: a model that is no EncoderPooler is rejected by the first build call
\* of a task: the abort comes during run, after every replica was loaded and
\* a batch was dispatched, and no graph is built, no forward pass runs and
\* nothing is written.
C10_RejectedAtFirstBuild ==
  ~isPooler =>
    /\ fatal \in { "none", "Could not cast to EncoderPooler" }
    /\ fatal # "none" =>
         /\ mainpc \in { "run_loop", "run_join" }
         /\ \A j \in Devices : models_[j].state = "loaded"
         /\ batchId >= 1
    /\ \A r \in Devices : graphs_[r].built = None
    /\ \A t \in Workers : wpc[t] \in { "idle", "build" }
    /\ \A sid \in DOMAIN collector : collector[sid] = << >>
    /\ mainpc = "returned" => stream = << >>

C10_Witness ==
  /\ ~isPooler
  /\ fatal = "Could not cast to EncoderPooler"
  /\ batchId >= 1
  /\ \A j \in Devices : models_[j].state = "loaded"

\* C11: with an element type that is neither float32 nor float16 no record
\* reaches the collector and no worker enters the write loop: the task that
\* gets to the copy aborts the process there, so run never returns once a
\* batch exists.
C11_UnknownTypeAbortsBeforeWrite ==
  valueType \notin { "float32", "float16" } =>
    /\ \A sid \in DOMAIN collector : collector[sid] = << >>
    /\ \A t \in Workers : wpc[t] # "write"
    /\ mainpc = "returned" => stream = << >>

C11_Witness ==
  /\ valueType = "int8"
  /\ fatal = "Unknown embedding type"
  /\ \E t \in Workers : wpc[t] = "extract" /\ BatchSize(wtask[t]) >= 2
  /\ \A sid \in DOMAIN collector : collector[sid] = << >>

\* the slice [i*embSize, (i+1)*embSize) of a buffer, element by element
BufferSlice(buf, i) == [k \in 1 .. embSize |-> buf[i * embSize + k]]

\* C13: while a task writes, its buffer holds batch->size() * embSize
\* elements; the record written for position i is the buffer's elements
\* [i*embSize, (i+1)*embSize) in order; these slices are in bounds and every
\* buffer element lies in exactly one of them; on the float32 path the
\* elements are the tensor's, on the float16 path the tensor's widened, so
\* that the record under a sentence id is that sentence's embedding.
C13_SlicesOfBuffer ==
  \A t \in Workers :
    wpc[t] = "write" =>
      LET id == wtask[t]
          buf == sentVectors[t]
          B == BatchSize(id)
      IN /\ Len(buf) = B * embSize
         /\ \A n \in 1 .. Len(buf) :
              Cardinality({ i \in 0 .. (B - 1) :
                              i * embSize < n /\ n <= (i + 1) * embSize }) = 1
         /\ \A i \in 0 .. (wi[t] - 1) :
              /\ (i + 1) * embSize <= Len(buf)
              /\ collector[getSentenceIds(id, i)] = << BufferSlice(buf, i) >>
         /\ buf # GarbageBuffer(id) =>
              /\ \A n \in 1 .. Len(buf) :
                   buf[n] = IF valueType = "float16"
                              THEN TensorValues(id)[n] - 1000
                              ELSE TensorValues(id)[n]
              /\ \A i \in 0 .. (wi[t] - 1) : \A k \in 1 .. embSize :
                   collector[getSentenceIds(id, i)][1][k]
                     = EmbeddingValue(getSentenceIds(id, i), k - 1)

C13_Witness ==
  /\ valueType = "float16"
  /\ ~similarity
  /\ \E t \in Workers :
       /\ wpc[t] = "write"
       /\ wi[t] = 2
       /\ sentVectors[t] # GarbageBuffer(wtask[t])
       /\ Len(sentVectors[t]) = 4
       /\ collector[getSentenceIds(wtask[t], 1)] = << SubSeq(sentVectors[t], 3, 4) >>

\* C14: tasks get the indices 0, 1, 2, ... in the order the batches are
\* pulled; a worker sets its thread-local replica once, to the index of the
\* task it is starting modulo the number of replicas, never changes it
\* afterwards, and builds and forwards every task on that replica only.
C14_ReplicaPickedOnce ==
  [][/\ batchId' # batchId =>
          batchId' = batchId + 1 /\ tasks' = Append(tasks, batchId)
     /\ \A t \in Workers :
          /\ tlGraph[t] # None => tlGraph'[t] = tlGraph[t]
          /\ tlGraph'[t] # tlGraph[t] =>
               /\ wpc[t] = "idle"
               /\ wtask'[t] = Head(tasks)
               /\ tlGraph'[t] = wtask'[t] % NumDevices
          /\ (wpc[t] \in { "build", "forward" } /\ wpc'[t] # wpc[t]) =>
               \A r \in Devices : r # tlGraph[t] => graphs_'[r] = graphs_[r]]_vars

C14_Witness ==
  \E t \in Workers :
    /\ wpc[t] = "extract"
    /\ wtask[t] % NumDevices # tlGraph[t]
    /\ graphs_[tlGraph[t]].built = wtask[t]

\* C15: once the constructor has returned there is one graph and one model
\* slot per device, every slot j holds a model created and loaded into graph
\* j from modelFile_, every load task is done, and slot j was assigned by
\* load task j only.
C15_AllReplicasLoaded ==
  /\ \A j \in Devices : models_[j].by \in { None, j }
  /\ mainpc \notin { "ctor_loop", "ctor_join" } =>
       /\ DOMAIN graphs_ = Devices
       /\ DOMAIN models_ = Devices
       /\ \A j \in Devices :
            /\ models_[j] = [state |-> "loaded", graph |-> j,
                             weights |-> "modelFile_", by |-> j]
            /\ loadTask[j] = "done"

C15_Witness ==
  /\ mainpc = "constructed"
  /\ \A j \in Devices : models_[j].state = "loaded" /\ models_[j].graph = j

\* ------------------------------------------------- neuralnet.h: behaviour
PipelineIdle ==
  /\ isPooler = TRUE
  /\ valueType = "float32"
  /\ similarity = FALSE
  /\ stream = << >>
  /\ mainpc = "ctor_loop"
  /\ ctorI = 0
  /\ loadTask = [j \in Devices |-> "none"]
  /\ models_ = [j \in Devices |-> NullModel]
  /\ graphs_ = [j \in Devices |-> [built |-> None, forwarded |-> FALSE]]
  /\ batchId = 0
  /\ tasks = << >>
  /\ wpc = [t \in Workers |-> "idle"]
  /\ wtask = [t \in Workers |-> None]
  /\ tlGraph = [t \in Workers |-> None]
  /\ wi = [t \in Workers |-> 0]
  /\ sentVectors = [t \in Workers |-> << >>]
  /\ collector = [sid \in 0 .. (MaxBatches * MaxBatchSize - 1) |-> << >>]
  /\ fatal = "none"

\* a freshly constructed layer on a graph in either mode; a tied Linear finds
\* the weight it was given among the graph's parameters
InitNN ==
  /\ PipelineIdle
  /\ MaskIdle
  /\ layer \in UntiedLayers \cup TiedLayers
  /\ params = IF layer.tied THEN << layer.weight >> ELSE << >>
  /\ mode \in { "train", "eval" }
  /\ lastX = NullExpr
  /\ lastY = NullExpr
  /\ nApply = 0
  /\ bindCount = [weight |-> 0, bias |-> 0]
  /\ dimsSeen = { }
  /\ nnFatal = "none"

\* the effect of one apply call on the state
Applied(x, r) ==
  /\ layer' = r.layer
  /\ params' = r.graph
  /\ lastX' = x
  /\ lastY' = r.y
  /\ nApply' = nApply + 1
  /\ bindCount' = [weight |-> bindCount.weight + BoolAttr(r.boundWeight),
                   bias |-> bindCount.bias + BoolAttr(r.boundBias)]
  /\ dimsSeen' = dimsSeen \cup { Last(x.shape) }
  /\ nnFatal' = r.fatal
  /\ UNCHANGED << mode, pvars, mvars >>

CanApply(kind) ==
  /\ nnFatal = "none"
  /\ nApply < MaxApply
  /\ layer.kind = kind

ApplyLinear ==
  /\ CanApply("Linear")
  /\ \E x \in Inputs : Applied(x, Linear_apply(layer, params, x))

ApplyLinearReluDropout ==
  /\ CanApply("LinearReluDropout")
  /\ \E x \in Inputs : Applied(x, LinearReluDropout_apply(layer, params, mode, x))

ApplyDropout ==
  /\ CanApply("Dropout")
  /\ \E x \in Inputs :
       Applied(x, ApplyResult(layer, params, Dropout_apply(layer, mode, x),
                              FALSE, FALSE, "none"))

ApplyLayerNorm ==
  /\ CanApply("LayerNorm")
  /\ \E x \in Inputs : Applied(x, LayerNorm_apply(layer, params, x))

ApplyRMSNorm ==
  /\ CanApply("RMSNorm")
  /\ \E x \in Inputs : Applied(x, RMSNorm_apply(layer, params, x))

\* the graph's mode is switched between forward passes
SetMode ==
  /\ nnFatal = "none"
  /\ nApply < MaxApply
  /\ mode' = IF mode = "train" THEN "eval" ELSE "train"
  /\ UNCHANGED << layer, params, lastX, lastY, nApply, bindCount, dimsSeen,
                  nnFatal, pvars, mvars >>

NextNN ==
  \/ ApplyLinear
  \/ ApplyLinearReluDropout
  \/ ApplyDropout
  \/ ApplyLayerNorm
  \/ ApplyRMSNorm
  \/ SetMode

SpecNN == InitNN /\ [][NextNN]_vars

\* --------------------------------------------- transposedLogMask: behaviour
InitMask ==
  /\ PipelineIdle
  /\ NNIdle
  /\ mask \in Masks \cup { NullTensor }
  /\ dimHeads \in 1 .. MaxHeads
  /\ logMask = NullTensor
  /\ maskCalls = 0

\* one call of transposedLogMask(mask, dimHeads)
CallTransposedLogMask ==
  /\ maskCalls = 0
  /\ logMask' = transposedLogMask(mask, dimHeads)
  /\ maskCalls' = 1
  /\ UNCHANGED << mask, dimHeads, pvars, nvars >>

\* the caller goes on to another mask
NextMaskInput ==
  /\ maskCalls = 1
  /\ mask' \in Masks \cup { NullTensor }
  /\ dimHeads' \in 1 .. MaxHeads
  /\ logMask' = NullTensor
  /\ maskCalls' = 0
  /\ UNCHANGED << pvars, nvars >>

NextMask ==
  \/ CallTransposedLogMask
  \/ NextMaskInput

SpecMask == InitMask /\ [][NextMask]_vars

\* C12: for a float16 mask with entries 0 and 1 every element of the result
\* is 0 or maskFactor = max(lowest(float16)/2, -99999999) = -32752, a finite
\* float16.
C12_Float16MaskFinite ==
  (maskCalls = 1 /\ mask # NullTensor /\ mask.type = "float16") =>
    /\ logMask.type = "float16"
    /\ \A n \in 1 .. Len(logMask.data) :
         /\ logMask.data[n] \in { 0, Max((0 - 65504) \div 2, 0 - 99999999) }
         /\ logMask.data[n] >= 0 - 65504
         /\ logMask.data[n] <= 65504

C12_Witness ==
  /\ maskCalls = 1
  /\ mask # NullTensor
  /\ mask.type = "float16"
  /\ dimHeads = 2
  /\ \E n \in 1 .. Len(logMask.data) : logMask.data[n] = 0 - 32752
  /\ \E n \in 1 .. Len(logMask.data) : logMask.data[n] = 0

\* C16: for a mask with batch size B and source length S the result has shape
\* (1, B*H, 1, S) and its entry at merged index b*H + h and position s is
\* (1 - mask[b,s]) * maskFactor for every head h; a null mask gives null.
C16_LogMaskLayout ==
  maskCalls = 1 =>
    IF mask = NullTensor
      THEN logMask = NullTensor
      ELSE LET B == mask.shape[1]
               S == mask.shape[2]
               H == dimHeads
           IN /\ logMask.shape = << 1, B * H, 1, S >>
              /\ Len(logMask.data) = B * H * S
              /\ \A b \in 0 .. (B - 1) : \A h \in 0 .. (H - 1) : \A w \in 0 .. (S - 1) :
                   /\ logMask.data[(b * H + h) * S + w + 1]
                        = (1 - mask.data[b * S + w + 1]) * maskFactor(mask.type)
                   /\ mask.data[b * S + w + 1] = 1
                        => logMask.data[(b * H + h) * S + w + 1] = 0

C16_Witness ==
  /\ maskCalls = 1
  /\ mask # NullTensor
  /\ mask.shape = << 2, 2, 1 >>
  /\ mask.data = << 1, 0, 0, 0 >>
  /\ dimHeads = 2
  /\ logMask.shape = << 1, 4, 1, 2 >>
  /\ logMask.data[1] = 0
  /\ logMask.data[3] = 0
  /\ logMask.data[5] # 0

\* =========================================================== layer claims
LazyKinds == { "Linear", "LinearReluDropout", "LayerNorm", "RMSNorm" }

LinearKinds == { "Linear", "LinearReluDropout" }

\* the slots a layer registers in apply
UsesWeight(l) ==
  \/ l.kind \in LinearKinds
  \/ l.kind \in { "LayerNorm", "RMSNorm" } /\ l.elementwiseAffine

UsesBias(l) ==
  \/ l.kind \in LinearKinds /\ l.useBias
  \/ l.kind = "LayerNorm" /\ l.elementwiseAffine

Occurrences(g, e) == Cardinality({ n \in 1 .. Len(g) : g[n] = e })

SlotsBoundOnce ==
  (/\ layer.kind \in LazyKinds
   /\ ~layer.tied
   /\ nApply >= 1
   /\ Cardinality(dimsSeen) = 1)
  => /\ nnFatal = "none"
     /\ bindCount.weight = BoolAttr(UsesWeight(layer))
     /\ bindCount.bias = BoolAttr(UsesBias(layer))
     /\ Len(params) = bindCount.weight + bindCount.bias
     /\ UsesWeight(layer) =>
          layer.weight # NullExpr /\ Occurrences(params, layer.weight) = 1
     /\ UsesBias(layer) =>
          layer.bias # NullExpr /\ Occurrences(params, layer.bias) = 1

SlotsKeepTensor ==
  /\ layer.weight # NullExpr => layer'.weight = layer.weight
  /\ layer.bias # NullExpr => layer'.bias = layer.bias

\* C5: after apply calls on inputs of one last dimension, every slot a lazily
\* bound layer uses was assigned exactly once, the graph holds each of these
\* parameters exactly once, and no step changes the tensor a bound slot
\* refers to.
C5_BoundExactlyOnce == [] SlotsBoundOnce /\ [][SlotsKeepTensor]_vars

C5_Witness ==
  /\ layer.kind = "LayerNorm"
  /\ layer.elementwiseAffine
  /\ nApply = 3
  /\ Cardinality(dimsSeen) = 1
  /\ Len(params) = 2
  /\ bindCount = [weight |-> 1, bias |-> 1]

\* the shape of the weight that apply asks the binder for on input x
ImpliedWeightShape(l, x) ==
  IF l.kind \in LinearKinds
    THEN IF l.transposed
           THEN << l.dimOut, Last(x.shape) >>
           ELSE << Last(x.shape), l.dimOut >>
    ELSE << Last(x.shape) >>

\* the latest apply met a weight bound by an earlier apply with another shape
AppliedToOtherShape ==
  /\ ~layer.tied
  /\ nApply >= 2
  /\ layer.weight # NullExpr
  /\ ImpliedWeightShape(layer, lastX) # layer.weight.shape

ApplyOnOtherShape ==
  /\ nApply' = nApply + 1
  /\ ~layer.tied
  /\ layer.weight # NullExpr
  /\ ImpliedWeightShape(layer, lastX') # layer.weight.shape

C7_WeightShapeFollowsTransposed ==
  (layer.kind = "Linear" /\ ~layer.tied /\ nApply = 1) =>
    /\ layer.weight.shape = IF layer.argTransposed
                              THEN << layer.dimOut, Last(lastX.shape) >>
                              ELSE << Last(lastX.shape), layer.dimOut >>
    /\ layer.useBias => layer.bias.shape = << layer.dimOut >>

\* C8: whatever Linear.apply returns has the input's shape with the last
\* dimension replaced by dimOut, for a given dimOut and for one taken from a
\* tied weight, for either value of the constructor's transposed argument.
C8_OutputShape ==
  (layer.kind = "Linear" /\ lastY # NullExpr) =>
    /\ Len(lastY.shape) = Len(lastX.shape)
    /\ \A n \in 1 .. (Len(lastX.shape) - 1) : lastY.shape[n] = lastX.shape[n]
    /\ lastY.shape[Len(lastY.shape)] = layer.dimOut

C8_Witness ==
  /\ layer.kind = "Linear"
  /\ layer.tied
  /\ layer.argTransposed
  /\ lastY # NullExpr
  /\ Len(lastX.shape) = 3
  /\ Last(lastX.shape) # layer.dimOut
  /\ Last(lastY.shape) = layer.dimOut

DropoutApplies(l, m) == m = "train" /\ l.dropoutProbabilty > 0

\* C9: Dropout and LinearReluDropout apply dropout exactly when the mode is
\* train and the probability is positive; otherwise Dropout returns its
\* input and LinearReluDropout the ReLU of the affine output, so that train
\* mode with probability 0 returns what eval mode returns.
C9_DropoutIffTrainAndPositive ==
  [][(nApply' = nApply + 1 /\ nnFatal' = "none") =>
       /\ layer.kind = "Dropout" =>
            /\ IF DropoutApplies(layer, mode)
                 THEN lastY'.op = "dropout" /\ lastY'.args = << lastX' >>
                 ELSE lastY' = lastX'
            /\ layer.dropoutProbabilty = 0 =>
                 lastY' = Dropout_apply(layer, "eval", lastX')
       /\ layer.kind = "LinearReluDropout" =>
            /\ lastY'.op = IF DropoutApplies(layer, mode)
                             THEN "dropoutReluInplace" ELSE "relu"
            /\ lastY'.args[1].op = IF layer.useBias THEN "affine" ELSE "dot"
            /\ lastY'.args[1].args[1] = lastX'
            /\ layer.dropoutProbabilty = 0 =>
                 lastY' = LinearReluDropout_apply(layer, params, "eval", lastX').y]_vars

C9_Witness ==
  /\ layer.kind = "LinearReluDropout"
  /\ layer.dropoutProbabilty = 0
  /\ layer.dropoutMaskShape # NoShape
  /\ mode = "train"
  /\ nApply = 3
  /\ lastY.op = "relu"

TiedWeightKept ==
  layer.tied =>
    /\ layer.weight \in TiedWeights
    /\ params[1] = layer.weight
    /\ layer.dimOut = layer.weight.shape[Len(layer.weight.shape)]
    /\ bindCount.weight = 0
    /\ Len(params) = 1 + bindCount.bias
    /\ ~layer.useBias => Len(params) = 1 /\ layer.bias = NullExpr
    /\ Len(params) = 2 =>
         /\ params[2] = layer.bias
         /\ layer.bias.shape = << layer.dimOut >>
         /\ layer.bias.init = "zeros"

\* C17: a Linear built on a tied weight has dimOut = the weight's last
\* dimension; no apply call assigns its weight slot, which keeps referring to
\* the tensor it was given, and the graph gains the bias parameter at most,
\* and nothing when useBias is false.
C17_TiedWeightNeverRebound ==
  [] TiedWeightKept /\ [][layer.tied => layer'.weight = layer.weight]_vars

C17_Witness ==
  /\ layer.tied
  /\ layer.useBias
  /\ nApply = 3
  /\ nnFatal = "none"
  /\ Len(params) = 2
  /\ params[1] = layer.weight

NormKinds == { "LayerNorm", "RMSNorm" }

\* C18: without elementwiseAffine the norm layers bind nothing: their slots
\* stay unbound, the graph's parameters stay as they were and the norm gets
\* no scale and no shift; with it LayerNorm binds exactly a weight (ones) and
\* a bias (zeros) of shape (dimModel) and RMSNorm exactly a weight of shape
\* (dimModel) and passes no shift.
C18_NormBinding ==
  (layer.kind \in NormKinds /\ nApply >= 1) =>
    IF ~layer.elementwiseAffine
      THEN /\ layer.weight = NullExpr
           /\ layer.bias = NullExpr
           /\ params = << >>
           /\ bindCount = [weight |-> 0, bias |-> 0]
           /\ lastY.args = << lastX, NullExpr, NullExpr >>
      ELSE /\ Len(layer.weight.shape) = 1
           /\ layer.weight.shape[1] \in dimsSeen
           /\ nApply = 1 => layer.weight.shape = << lastX.shape[Len(lastX.shape)] >>
           /\ layer.weight.init = "ones"
           /\ IF layer.kind = "LayerNorm"
                THEN /\ params = << layer.weight, layer.bias >>
                     /\ layer.bias.shape = layer.weight.shape
                     /\ layer.bias.init = "zeros"
                     /\ lastY.args = << lastX, layer.weight, layer.bias >>
                ELSE /\ params = << layer.weight >>
                     /\ layer.bias = NullExpr
                     /\ lastY.args = << lastX, layer.weight, NullExpr >>

C18_Witness ==
  /\ layer.kind = "RMSNorm"
  /\ ~layer.elementwiseAffine
  /\ nApply = 3
  /\ params = << >>
  /\ layer.weight = NullExpr
  /\ lastY.op = "rmsNorm"

\* C19: in eval mode, and in train mode with probability 0, what
\* LinearReluDropout.apply returns on x is the ReLU of what Linear.apply
\* returns on x for the same slots and settings, for every element type of x,
\* the casts of weight and bias included.
C19_FusedEqualsReluOfLinear ==
  [][(/\ layer.kind = "LinearReluDropout"
      /\ nApply' = nApply + 1
      /\ nnFatal' = "none"
      /\ (mode = "eval" \/ layer.dropoutProbabilty = 0))
     => lastY' = relu(Linear_apply([layer EXCEPT !.kind = "Linear"], params, lastX').y)]_vars

====
